---- MODULE Spec2Model ----
\* A model of sensu-puppet-handler (src/unnamed/part_001, the current main.go):
\* validate, executeHandler, puppetHTTPClient, puppetNodeExists and
\* deregisterEntity, with the parts of net/url and path that validate relies on.
\*
\* Strings that the code takes apart (URLs, names) are sequences of one-character
\* strings; strings that the code only tests for emptiness (file paths, the API
\* key) and error messages are TLA+ strings.  A nil error is "".
EXTENDS Integers, Sequences, FiniteSets, TLC

VARIABLES handler, event, pc, exitErr, puppetFiles, puppetClient, resp,
          nodeExists, sensuConfig, deleteOutcome, calls, validations

vars == <<handler, event, pc, exitErr, puppetFiles, puppetClient, resp,
          nodeExists, sensuConfig, deleteOutcome, calls, validations>>

\* ---------------------------------------------------------------- strings

Letters == {"a", "b", "c", "d", "e", "f", "h", "k", "l", "n", "o", "p", "q",
            "r", "s", "t", "u", "v", "y", "F"}

Digits == {"0", "1", "2", "4", "7", "8"}

\* strings.Index: the first position of c in s, 0 when absent
RECURSIVE IndexFrom(_, _, _)
IndexFrom(s, c, i) ==
    IF i > Len(s) THEN 0
    ELSE IF s[i] = c THEN i
    ELSE IndexFrom(s, c, i + 1)

Index(s, c) == IndexFrom(s, c, 1)

\* strings.LastIndex: the last position of c in s, 0 when absent
RECURSIVE LastIndexFrom(_, _, _)
LastIndexFrom(s, c, i) ==
    IF i < 1 THEN 0
    ELSE IF s[i] = c THEN i
    ELSE LastIndexFrom(s, c, i - 1)

LastIndex(s, c) == LastIndexFrom(s, c, Len(s))

HasPrefix(s, p) == Len(s) >= Len(p) /\ SubSeq(s, 1, Len(p)) = p

Tail2(s, i) == SubSeq(s, i, Len(s))

\* strings.TrimRight(s, "/")
RECURSIVE TrimRightSlash(_)
TrimRightSlash(s) ==
    IF Len(s) > 0 /\ s[Len(s)] = "/" THEN TrimRightSlash(SubSeq(s, 1, Len(s) - 1))
    ELSE s

\* ---------------------------------------------------------------- net/url
\* The inputs of the model hold letters, digits, ".", ":", "/" and, once
\* String has escaped a host, "%".  They hold no "?", "#", "@", "[" or "*" and no
\* control byte, so RawQuery, Fragment, User and ForceQuery stay empty and are
\* left out of the URL record.

EmptyURL == [Scheme |-> <<>>, Opaque |-> <<>>, Host |-> <<>>, Path |-> <<>>]

\* url.getScheme, scanning from position i; ok = FALSE is "missing protocol scheme"
RECURSIVE getSchemeFrom(_, _)
getSchemeFrom(rawURL, i) ==
    IF i > Len(rawURL) THEN [scheme |-> <<>>, rest |-> rawURL, ok |-> TRUE]
    ELSE LET c == rawURL[i] IN
         IF c \in Letters THEN getSchemeFrom(rawURL, i + 1)
         ELSE IF c \in Digits \/ c = "+" \/ c = "-" \/ c = "."
              THEN IF i = 1 THEN [scheme |-> <<>>, rest |-> rawURL, ok |-> TRUE]
                   ELSE getSchemeFrom(rawURL, i + 1)
         ELSE IF c = ":"
              THEN IF i = 1 THEN [scheme |-> <<>>, rest |-> <<>>, ok |-> FALSE]
                   ELSE [scheme |-> SubSeq(rawURL, 1, i - 1),
                         rest |-> Tail2(rawURL, i + 1), ok |-> TRUE]
         ELSE [scheme |-> <<>>, rest |-> rawURL, ok |-> TRUE]

getScheme(rawURL) == getSchemeFrom(rawURL, 1)

\* url.validOptionalPort: "" or ":" followed by digits only
validOptionalPort(port) ==
    \/ port = <<>>
    \/ /\ port[1] = ":"
       /\ \A i \in 2..Len(port) : port[i] \in Digits

\* url.parseHost (no "[" in the inputs).  After the port check the host is
\* unescaped in host mode, where "%" followed by a hex pair below %80 other than
\* %25 is an error; the only escapes the model produces are "%2F".
parseHost(host) ==
    LET i == LastIndex(host, ":") IN
    IF i # 0 /\ ~validOptionalPort(Tail2(host, i))
    THEN [host |-> <<>>, err |-> "invalid port after host"]
    ELSE IF Index(host, "%") # 0
    THEN [host |-> <<>>, err |-> "invalid URL escape"]
    ELSE [host |-> host, err |-> ""]

\* url.Parse
Parse(rawURL) ==
    LET s == getScheme(rawURL) IN
    IF ~s.ok THEN [url |-> EmptyURL, err |-> "parse: missing protocol scheme"]
    ELSE
    LET rest == s.rest
        seg  == IF Index(rest, "/") = 0 THEN rest
                ELSE SubSeq(rest, 1, Index(rest, "/") - 1)
    IN
    IF ~HasPrefix(rest, <<"/">>) /\ s.scheme # <<>>
    THEN \* a rootless path after a scheme is opaque
         [url |-> [EmptyURL EXCEPT !.Scheme = s.scheme, !.Opaque = rest], err |-> ""]
    ELSE IF ~HasPrefix(rest, <<"/">>) /\ Index(seg, ":") # 0
    THEN [url |-> EmptyURL,
          err |-> "parse: first path segment in URL cannot contain colon"]
    ELSE IF (s.scheme # <<>> \/ ~HasPrefix(rest, <<"/", "/", "/">>))
            /\ HasPrefix(rest, <<"/", "/">>)
    THEN LET a0        == Tail2(rest, 3)
             i         == Index(a0, "/")
             authority == IF i = 0 THEN a0 ELSE SubSeq(a0, 1, i - 1)
             path      == IF i = 0 THEN <<>> ELSE Tail2(a0, i)
             h         == parseHost(authority)
         IN IF h.err # "" THEN [url |-> EmptyURL, err |-> "parse: " \o h.err]
            ELSE [url |-> [EmptyURL EXCEPT !.Scheme = s.scheme, !.Host = h.host,
                                           !.Path = path],
                  err |-> ""]
    ELSE [url |-> [EmptyURL EXCEPT !.Scheme = s.scheme, !.Path = rest], err |-> ""]

\* url.escape(s, encodeHost): of the model's characters only "/" is escaped
RECURSIVE escapeHost(_)
escapeHost(s) ==
    IF s = <<>> THEN <<>>
    ELSE (IF Head(s) = "/" THEN <<"%", "2", "F">> ELSE <<Head(s)>>)
         \o escapeHost(Tail(s))

\* (*URL).String.  EscapedPath is the path itself: none of the model's path
\* characters is escaped in path mode.
String(u) ==
    LET scheme == IF u.Scheme # <<>> THEN u.Scheme \o <<":">> ELSE <<>>
        auth   == IF u.Scheme # <<>> \/ u.Host # <<>>
                  THEN (IF u.Host # <<>> \/ u.Path # <<>> THEN <<"/", "/">> ELSE <<>>)
                       \o escapeHost(u.Host)
                  ELSE <<>>
        slash  == IF u.Path # <<>> /\ u.Path[1] # "/" /\ u.Host # <<>>
                  THEN <<"/">> ELSE <<>>
        seg    == IF Index(u.Path, "/") = 0 THEN u.Path
                  ELSE SubSeq(u.Path, 1, Index(u.Path, "/") - 1)
        dot    == IF scheme \o auth \o slash = <<>> /\ Index(seg, ":") # 0
                  THEN <<".", "/">> ELSE <<>>
    IN IF u.Opaque # <<>> THEN scheme \o u.Opaque
       ELSE scheme \o auth \o slash \o dot \o u.Path

\* ---------------------------------------------------------------- path

\* path.Clean for paths without "." and ".." elements: repeated slashes collapse
RECURSIVE Clean(_)
Clean(p) ==
    IF Len(p) < 2 THEN p
    ELSE IF p[1] = "/" /\ p[2] = "/" THEN Clean(Tail(p))
    ELSE <<p[1]>> \o Clean(Tail(p))

\* path.Join(a, b): the non-empty elements joined by "/" and cleaned
Join(a, b) ==
    IF a = <<>> THEN Clean(b)
    ELSE IF b = <<>> THEN Clean(a)
    ELSE Clean(a \o <<"/">> \o b)

\* ---------------------------------------------------------------- inputs

defaultAPIPath == <<"p", "d", "b", "/", "q", "u", "e", "r", "y", "/", "v", "4",
                    "/", "n", "o", "d", "e", "s">>

keepalive == <<"k", "e", "e", "p", "a", "l", "i", "v", "e">>

labelPuppetNodeName == "puppet_node_name"

Http == <<"h", "t", "t", "p", ":", "/", "/">>

Localhost == <<"1", "2", "7", ".", "0", ".", "0", ".", "1">>

\* Values of the endpoint option: empty, the endpoints of Test_validate
\* ("http://127.0.0.1", "http://127.0.0.1/", "foo"), an endpoint with a port and
\* an API path, one with a trailing slash, the normalised endpoint, endpoints
\* without a scheme, and endpoints url.Parse rejects or reads as opaque.
Endpoints ==
    { <<>>,
      Http \o Localhost,
      Http \o Localhost \o <<"/">>,
      Http \o Localhost \o <<"/">> \o defaultAPIPath,
      Http \o <<"h", ":", "8", "0", "8", "1", "/", "a", "p", "/">>,
      <<"f", "o", "o">>,
      <<"/", "/", "h">>,
      <<"/", "/", "h", "/", "a", "p">>,
      <<"h", ":", "8", "0", "8", "1">>,
      Http \o <<"h", ":", "p">>,
      <<":", "h">> }

\* Values of the sensu-api-url option: empty, the default "http://localhost:8080"
\* shortened to "http://l:8080", a URL without a scheme, one without a host, and
\* one url.Parse rejects.
SensuAPIURLs ==
    { <<>>,
      Http \o <<"l", ":", "8", "0", "8", "0">>,
      <<"l">>,
      <<"h", "t", "t", "p", ":", "/", "a">>,
      <<":", "l">> }

\* Options the code only tests for emptiness
Paths(p) == {"", p}

Handlers ==
    [ endpoint                 : Endpoints,
      puppetCert               : Paths("cert.pem"),
      puppetKey                : Paths("key.pem"),
      puppetCACert             : Paths("ca.pem"),
      puppetInsecureSkipVerify : BOOLEAN,
      puppetNodeName           : {<<>>, <<"n", "o", "d", "e">>},
      sensuAPIURL              : SensuAPIURLs,
      sensuAPIKey              : Paths("xxxxxxxxxx"),
      sensuCACert              : Paths("sensu-ca.pem") ]

\* A nil pointer
Nil == [nil |-> TRUE]

Checks == { [Name |-> keepalive], [Name |-> <<"c", "p", "u">>] }

Entities ==
    [ Namespace : {<<"d", "e", "f">>},
      Name      : {<<"f", "o", "o">>},
      Labels    : { {}, {<<labelPuppetNodeName, <<"b", "a", "r">>>>} } ]

Events == [ Check : Checks \cup {Nil}, Entity : Entities \cup {Nil} ]

\* ---------------------------------------------------------------- validate

Result(err, h) == [err |-> err, handler |-> h]

\* validate, lines 166-178: the Sensu API URL
validateSensuAPIURL(h) ==
    LET p == Parse(h.sensuAPIURL) IN
    IF p.err # "" THEN Result("invalid Sensu API URL: " \o p.err, h)
    ELSE IF p.url.Scheme = <<>> THEN Result("invalid Sensu API URL, missing scheme", h)
    ELSE IF p.url.Host = <<>> THEN Result("invalid Sensu API URL, missing host", h)
    ELSE Result("", h)

\* validate, lines 155-157: a URL without a scheme has its Host (not its Scheme)
\* set to "https://"
defaultScheme(u) ==
    IF u.Scheme = <<>>
    THEN [u EXCEPT !.Host = <<"h", "t", "t", "p", "s", ":", "/", "/">>]
    ELSE u

\* validate, lines 161-163: the default API path
defaultPath(u) ==
    IF u.Path = <<>> \/ u.Path = <<"/">>
    THEN [u EXCEPT !.Path = Join(u.Path, defaultAPIPath)]
    ELSE u

\* validate, lines 150-164: the PuppetDB endpoint, stored back normalised
validateEndpoint(h) ==
    LET p == Parse(h.endpoint) IN
    IF p.err # "" THEN Result("invalid PuppetDB API endpoint URL: " \o p.err, h)
    ELSE LET u == defaultScheme(p.url) IN
         IF u.Host = <<>> THEN Result("invalid PuppetDB API endpoint URL", h)
         ELSE Result("", [h EXCEPT !.endpoint = String(defaultPath(u))])

\* requiredOptions with the tests of the key and of the certificate exchanged
requiredOptions_KeyFirst(h) ==
    IF Len(h.endpoint) = 0 THEN "the PuppetDB API endpoint is required"
    ELSE IF h.puppetKey = "" THEN "the path to the private key is required"
    ELSE IF h.puppetCert = "" THEN "the path to the SSL certificate is required"
    ELSE IF Len(h.sensuAPIURL) = 0 THEN "the Sensu API URL is required"
    ELSE IF h.sensuAPIKey = "" THEN "the Sensu API key is required"
    ELSE ""

\* validate, lines 133-148: the required options
requiredOptions(h) ==
    IF Len(h.endpoint) = 0 THEN "the PuppetDB API endpoint is required"
    ELSE IF h.puppetCert = "" THEN "the path to the SSL certificate is required"
    ELSE IF h.puppetKey = "" THEN "the path to the private key is required"
    ELSE IF Len(h.sensuAPIURL) = 0 THEN "the Sensu API URL is required"
    ELSE IF h.sensuAPIKey = "" THEN "the Sensu API key is required"
    ELSE ""

\* validEvent with && for ||: only an event lacking both is refused
validEvent_BothNil(ev) == ~(ev.Check = Nil /\ ev.Entity = Nil)

\* validate, lines 128-131: the event
validEvent(ev) == ~(ev.Check = Nil \/ ev.Entity = Nil)

\* validate: the error it returns and the handler configuration it leaves
validate(h, ev) ==
    IF ~validEvent(ev) THEN Result("invalid event", h)
    ELSE IF requiredOptions(h) # "" THEN Result(requiredOptions(h), h)
    ELSE LET e == validateEndpoint(h) IN
         IF e.err # "" THEN e
         ELSE validateSensuAPIURL(e.handler)

\* ---------------------------------------------------------------- the environment

StatusOK == 200

StatusNotFound == 404

\* A response body: whether it decodes as a JSON object, and the object's
\* members as <<key, value>> pairs, a value being a JSON literal
JSONNull == "null"

Body(valid, fields) == [valid |-> valid, fields |-> fields]

Bodies ==
    { Body(FALSE, {}),
      Body(TRUE, {}),
      Body(TRUE, {<<"deactivated", JSONNull>>}),
      Body(TRUE, {<<"deactivated", "1584576000">>}),
      Body(TRUE, {<<"certname", "foo">>}),
      Body(TRUE, {<<"certname", "foo">>, <<"deactivated", "2020-03-19">>}) }

\* What client.Get returns: an error, or a response
GetOutcomes ==
    { [err |-> "connection refused", StatusCode |-> 0, Body |-> Body(FALSE, {})] }
    \cup [ err : {""}, StatusCode : {StatusOK, 204, StatusNotFound, 410, 500, 503},
           Body : Bodies ]

\* What client.DeleteResource returns: nil, an httpclient.HTTPError, or another error
DeleteOutcomes ==
    { [kind |-> "nil", StatusCode |-> 0], [kind |-> "error", StatusCode |-> 0] }
    \cup [ kind : {"HTTPError"}, StatusCode : {400, 404, 499, 500, 503} ]

\* What reading and parsing the sensu-ca-cert file gives
CACertOutcomes == {"unreadable", "no PEM block", "not a certificate", "ok"}

\* An outbound call or file read: the function making it, the call, its target
Call(by, op, target) == [by |-> by, op |-> op, target |-> target]

\* ---------------------------------------------------------------- executeHandler

\* isKeepalive without the check of the name
isKeepalive_Always(ev) == TRUE

\* executeHandler, line 182
isKeepalive(ev) == ev.Check.Name = keepalive

\* puppetNodeExists, lines 236-239: the node name
nodeName(h, ev) ==
    IF h.puppetNodeName = <<>> THEN ev.Entity.Name ELSE h.puppetNodeName

\* puppetNodeExists, lines 242-243: the URL of the GET
nodeURL(h, ev) == TrimRightSlash(h.endpoint) \o <<"/">> \o nodeName(h, ev)

\* A map index: the value under key, nil (JSON null) when the key is absent
MapIndex(m, key) ==
    IF \E kv \in m : kv[1] = key
    THEN (CHOOSE kv \in m : kv[1] = key)[2]
    ELSE JSONNull

\* puppetNodeExists, line 258: nodeInfo is a new, empty map; the decoded info
\* is not copied into it
nodeInfo(info) == {}

\* http.StatusText for the statuses of GetOutcomes
StatusText(StatusCode) ==
    CASE StatusCode = 200 -> "OK"
      [] StatusCode = 204 -> "No Content"
      [] StatusCode = 404 -> "Not Found"
      [] StatusCode = 410 -> "Gone"
      [] StatusCode = 500 -> "Internal Server Error"
      [] StatusCode = 503 -> "Service Unavailable"
      [] OTHER -> ""

Exists(exists, err) == [exists |-> exists, err |-> err]

\* puppetNodeExistsResult without the StatusNotFound branch
puppetNodeExistsResult_NoNotFound(StatusCode, body) ==
    IF StatusCode = StatusOK
    THEN IF ~body.valid THEN Exists(FALSE, "puppet node returned invalid response")
         ELSE Exists(TRUE, "")
    ELSE Exists(FALSE, "unexpected HTTP status " \o StatusText(StatusCode)
                       \o " while querying PuppetDB")

\* puppetNodeExists, lines 252-271: the result for a response
puppetNodeExistsResult(StatusCode, body) ==
    IF StatusCode = StatusOK
    THEN IF ~body.valid THEN Exists(FALSE, "puppet node returned invalid response")
         ELSE LET timeDeactivated == MapIndex(nodeInfo(body.fields), "deactivated")
              IN IF timeDeactivated # JSONNull THEN Exists(FALSE, "")
                 ELSE Exists(TRUE, "")
    ELSE IF StatusCode = StatusNotFound THEN Exists(FALSE, "")
    ELSE Exists(FALSE, "unexpected HTTP status " \o StatusText(StatusCode)
                       \o " while querying PuppetDB")

\* afterNodeExists with the test of exists inverted
afterNodeExists_Inverted(r) ==
    IF r.err # "" THEN [pc |-> "exit", err |-> r.err]
    ELSE IF ~r.exists THEN [pc |-> "exit", err |-> ""]
    ELSE [pc |-> "deregisterEntity", err |-> ""]

\* afterNodeExists without the test of the error
afterNodeExists_ErrIgnored(r) ==
    IF r.exists THEN [pc |-> "exit", err |-> ""]
    ELSE [pc |-> "deregisterEntity", err |-> ""]

\* afterNodeExists asking PuppetDB a second time after a first error
afterNodeExists_Retry(r) ==
    IF r.err # "" /\ ~(\E i \in DOMAIN calls : calls[i].op = "GET")
    THEN [pc |-> "puppetNodeExists", err |-> ""]
    ELSE IF r.err # "" THEN [pc |-> "exit", err |-> r.err]
    ELSE IF r.exists THEN [pc |-> "exit", err |-> ""]
    ELSE [pc |-> "deregisterEntity", err |-> ""]

\* executeHandler, lines 192-200: where it goes with puppetNodeExists' result
afterNodeExists(r) ==
    IF r.err # "" THEN [pc |-> "exit", err |-> r.err]
    ELSE IF r.exists THEN [pc |-> "exit", err |-> ""]
    ELSE [pc |-> "deregisterEntity", err |-> ""]

\* resourceRequest naming the entity by the node name looked up in PuppetDB
resourceRequest_NodeName(h, ev) == <<ev.Entity.Namespace, nodeName(h, ev)>>

\* deregisterEntity, line 302: the (namespace, name) of the resource request
resourceRequest(h, ev) == <<ev.Entity.Namespace, ev.Entity.Name>>

\* deregisterEntity, lines 309-319: the error returned for DeleteResource's outcome
ServerError == 500

\* deleteResult without the test of the status code
deleteResult_AnyHTTPError(o) ==
    IF o.kind = "nil" THEN ""
    ELSE IF o.kind = "HTTPError" THEN ""
    ELSE "delete: error"

deleteResult(o) ==
    IF o.kind = "nil" THEN ""
    ELSE IF o.kind = "HTTPError" /\ o.StatusCode < ServerError THEN ""
    ELSE IF o.kind = "HTTPError" THEN "delete: HTTP error"
    ELSE "delete: error"

\* ---------------------------------------------------------------- the handler

Init ==
    /\ handler \in Handlers
    /\ event \in Events
    /\ pc = "validate"
    /\ exitErr = ""
    /\ puppetFiles = Nil
    /\ puppetClient = Nil
    /\ resp = Nil
    /\ nodeExists = Nil
    /\ sensuConfig = Nil
    /\ deleteOutcome = Nil
    /\ calls = <<>>
    /\ validations = <<>>

\* One run of validate: the configuration it was given, the error it returned
\* and the configuration it left
Validation(given, r) == [given |-> given, err |-> r.err, handler |-> r.handler]

\* main: the plugin runs validate and, when it returns nil, executeHandler
Validate ==
    /\ pc = "validate"
    /\ LET r == validate(handler, event) IN
       /\ handler' = r.handler
       /\ validations' = Append(validations, Validation(handler, r))
       /\ exitErr' = r.err
       /\ pc' = IF r.err # "" THEN "exit" ELSE "executeHandler"
    /\ UNCHANGED <<event, puppetFiles, puppetClient, resp, nodeExists,
                   sensuConfig, deleteOutcome, calls>>

\* executeHandler, lines 182-185: only keepalive events go on
ExecuteHandler ==
    /\ pc = "executeHandler"
    /\ pc' = IF isKeepalive(event) THEN "puppetHTTPClient" ELSE "exit"
    /\ UNCHANGED <<handler, event, exitErr, puppetFiles, puppetClient, resp, nodeExists,
                   sensuConfig, deleteOutcome, calls, validations>>

\* puppetHTTPClient reading on after a CA certificate that could not be read
puppetHTTPClientErr_CAIgnored(keyPair, caCert) ==
    IF keyPair # "ok" THEN "could not read the certificate/key"
    ELSE ""

\* puppetHTTPClient, lines 206-215: the error for the outcomes of
\* tls.LoadX509KeyPair and of ioutil.ReadFile
puppetHTTPClientErr(keyPair, caCert) ==
    IF keyPair # "ok" THEN "could not read the certificate/key"
    ELSE IF caCert # "ok" THEN "could not read the CA certificate"
    ELSE ""

\* puppetHTTPClient, and executeHandler's lines 187-190.  Reading the file ""
\* always fails; the CA certificate is not read when the key pair failed.
PuppetHTTPClient ==
    /\ pc = "puppetHTTPClient"
    /\ \E keyPair \in BOOLEAN, caFile \in BOOLEAN :
         LET load == Call("puppetHTTPClient", "LoadX509KeyPair",
                          <<handler.puppetCert, handler.puppetKey>>)
             read == Call("puppetHTTPClient", "ReadFile", handler.puppetCACert)
             kp   == IF keyPair THEN "ok" ELSE "unreadable"
             ca   == IF ~keyPair THEN "not read"
                     ELSE IF caFile /\ handler.puppetCACert # "" THEN "ok"
                     ELSE "unreadable"
             err  == puppetHTTPClientErr(kp, ca)
         IN
         /\ calls' = calls \o (IF keyPair THEN <<load, read>> ELSE <<load>>)
         /\ puppetFiles' = [keyPair |-> kp, caCert |-> ca]
         /\ IF err # ""
            THEN /\ exitErr' = err
                 /\ pc' = "exit"
                 /\ UNCHANGED puppetClient
            ELSE /\ puppetClient' =
                      [InsecureSkipVerify |-> handler.puppetInsecureSkipVerify]
                 /\ pc' = "puppetNodeExists"
                 /\ UNCHANGED exitErr
    /\ UNCHANGED <<handler, event, resp, nodeExists, sensuConfig, deleteOutcome,
                   validations>>

\* bodyClosed with the Close after a successful Decode instead of deferred
bodyClosed_AfterDecode(StatusCode, body) == StatusCode = StatusOK /\ body.valid

\* puppetNodeExists, line 249: the Close of the body is deferred as soon as
\* there is a response, so it has run at every return that follows, whatever
\* the status and the body
bodyClosed(StatusCode, body) == TRUE

\* puppetNodeExists, and executeHandler's lines 192-199
PuppetNodeExists ==
    /\ pc = "puppetNodeExists"
    /\ \E o \in GetOutcomes :
         LET r == IF o.err # "" THEN Exists(FALSE, o.err)
                  ELSE puppetNodeExistsResult(o.StatusCode, o.Body)
         IN
         /\ calls' = Append(calls, Call("puppetNodeExists", "GET", nodeURL(handler, event)))
         /\ resp' = IF o.err # "" THEN Nil
                    ELSE [StatusCode |-> o.StatusCode, Body |-> o.Body,
                          closed |-> bodyClosed(o.StatusCode, o.Body)]
         /\ nodeExists' = r
         /\ pc' = afterNodeExists(r).pc
         /\ exitErr' = afterNodeExists(r).err
    /\ UNCHANGED <<handler, event, puppetFiles, puppetClient, sensuConfig, deleteOutcome,
                   validations>>

\* sensuClientConfig without the lines 298-300
sensuClientConfig_Verifying(h) ==
    [URL |-> h.sensuAPIURL, APIKey |-> h.sensuAPIKey,
     CACert |-> h.sensuCACert # "", InsecureSkipVerify |-> FALSE]

\* deregisterEntity, lines 276-300: the configuration of the Sensu API client
sensuClientConfig(h) ==
    [URL |-> h.sensuAPIURL, APIKey |-> h.sensuAPIKey,
     CACert |-> h.sensuCACert # "",
     InsecureSkipVerify |-> h.puppetInsecureSkipVerify]

\* deregisterEntity, as executeHandler's line 200 calls it.  The request for
\* ("core/v2", "Entity") is taken to be built without error.
DeregisterEntity ==
    /\ pc = "deregisterEntity"
    /\ \E ca \in CACertOutcomes, o \in DeleteOutcomes :
         LET read   == Call("deregisterEntity", "ReadFile", handler.sensuCACert)
             delete == Call("deregisterEntity", "DELETE",
                            resourceRequest(handler, event))
             config == sensuClientConfig(handler)
         IN
         IF handler.sensuCACert # "" /\ ca # "ok"
         THEN /\ calls' = Append(calls, read)
              /\ exitErr' = IF ca = "unreadable" THEN "unable to load sensu-ca-cert"
                            ELSE IF ca = "no PEM block"
                                 THEN "failed to decode sensu-ca-cert PEM"
                                 ELSE "invalid sensu-ca-cert"
              /\ UNCHANGED <<sensuConfig, deleteOutcome>>
         ELSE /\ calls' = calls \o (IF handler.sensuCACert # "" THEN <<read>> ELSE <<>>)
                                \o <<delete>>
              /\ sensuConfig' = config
              /\ deleteOutcome' = o
              /\ exitErr' = deleteResult(o)
    /\ pc' = "exit"
    /\ UNCHANGED <<handler, event, puppetFiles, puppetClient, resp, nodeExists,
                   validations>>

Next ==
    \/ Validate
    \/ ExecuteHandler
    \/ PuppetHTTPClient
    \/ PuppetNodeExists
    \/ DeregisterEntity

Spec == Init /\ [][Next]_vars

\* ---------------------------------------------------------------- validate, re-run

MaxRuns == 2

\* validate run again on the configuration the previous run left
Revalidate ==
    /\ Len(validations) < MaxRuns
    /\ LET r == validate(handler, event) IN
       /\ handler' = r.handler
       /\ validations' = Append(validations, Validation(handler, r))
       /\ exitErr' = r.err
    /\ UNCHANGED <<event, pc, puppetFiles, puppetClient, resp, nodeExists, sensuConfig,
                   deleteOutcome, calls>>

SpecRevalidate == Init /\ [][Revalidate]_vars

\* ---------------------------------------------------------------- properties

\* The first run of validate returned nil
Validated == validations # <<>> /\ validations[1].err = ""

CallsOf(op) == {i \in DOMAIN calls : calls[i].op = op}

\* deregisterEntity has been entered
DeregisterInvoked ==
    \/ pc = "deregisterEntity"
    \/ \E i \in DOMAIN calls : calls[i].by = "deregisterEntity"

\* C1: a DELETE is issued only after validate succeeded, on a keepalive event
\* for which puppetNodeExists returned (false, nil); when puppetNodeExists
\* returns true or an error the handler has ended and deregisterEntity was
\* never entered.
C1_DeleteOnlyWhenNodeAbsent ==
    /\ CallsOf("DELETE") # {} =>
         /\ Validated
         /\ event.Check.Name = keepalive
         /\ nodeExists = Exists(FALSE, "")
    /\ (nodeExists # Nil /\ (nodeExists.exists \/ nodeExists.err # "")) =>
         /\ pc = "exit"
         /\ ~DeregisterInvoked
         /\ CallsOf("DELETE") = {}

C1_Witness ==
    /\ pc = "exit"
    /\ CallsOf("DELETE") # {}
    /\ nodeExists = Exists(FALSE, "")

\* C2: for a response with status 200 and a body that decodes,
\* puppetNodeExists returns (false, nil) exactly when the body has a non-null
\* "deactivated" member, and (true, nil) otherwise.
C2_DeactivatedIsNotExists ==
    (resp # Nil /\ resp.StatusCode = StatusOK /\ resp.Body.valid) =>
        nodeExists = Exists(MapIndex(resp.Body.fields, "deactivated") = JSONNull, "")

\* C3: for a response with status 404 puppetNodeExists returns (false, nil),
\* whatever the node name and the body.
C3_NotFoundIsNotExists ==
    (resp # Nil /\ resp.StatusCode = StatusNotFound) => nodeExists = Exists(FALSE, "")

C3_Witness ==
    /\ resp # Nil
    /\ resp.StatusCode = StatusNotFound
    /\ resp.Body.fields # {}
    /\ handler.puppetNodeName # <<>>
    /\ nodeExists = Exists(FALSE, "")

\* C4: for a response whose status is neither 200 nor 404 puppetNodeExists
\* returns an error that carries the status text, and the handler ends with
\* that error without entering deregisterEntity.
C4_OtherStatusIsError ==
    (resp # Nil /\ resp.StatusCode \notin {StatusOK, StatusNotFound}) =>
        /\ nodeExists = Exists(FALSE, "unexpected HTTP status "
                                      \o StatusText(resp.StatusCode)
                                      \o " while querying PuppetDB")
        /\ StatusText(resp.StatusCode) # ""
        /\ pc = "exit"
        /\ exitErr = nodeExists.err
        /\ ~DeregisterInvoked
        /\ CallsOf("DELETE") = {}

C4_Witness ==
    /\ resp # Nil
    /\ resp.StatusCode = 500
    /\ pc = "exit"
    /\ exitErr = "unexpected HTTP status Internal Server Error while querying PuppetDB"

\* C5: on a valid event whose check is not "keepalive" executeHandler returns
\* nil and nothing is loaded, requested or deleted.
C5_NonKeepaliveIsNoOp ==
    (Validated /\ event.Check.Name # keepalive) =>
        /\ pc \in {"executeHandler", "exit"}
        /\ exitErr = ""
        /\ calls = <<>>
        /\ puppetClient = Nil /\ resp = Nil /\ sensuConfig = Nil

C5_Witness ==
    /\ Validated
    /\ event.Check.Name # keepalive
    /\ pc = "exit"
    /\ exitErr = ""

\* C6: deregisterEntity returns nil when DeleteResource returns nil or an
\* HTTPError with a status below 500, and an error for every other outcome.
C6_DeleteErrorTolerance ==
    deleteOutcome # Nil =>
        /\ pc = "exit"
        /\ (exitErr = "") <=>
              \/ deleteOutcome.kind = "nil"
              \/ deleteOutcome.kind = "HTTPError" /\ deleteOutcome.StatusCode < 500

C6_Witness ==
    /\ deleteOutcome # Nil
    /\ deleteOutcome.kind = "HTTPError"
    /\ deleteOutcome.StatusCode = StatusNotFound
    /\ exitErr = ""

\* The options C7 names
RequiredSet(h) ==
    /\ h.endpoint # <<>>
    /\ h.puppetCert # ""
    /\ h.puppetKey # ""
    /\ h.puppetCACert # ""
    /\ h.sensuAPIURL # <<>>
    /\ h.sensuAPIKey # ""

\* How many of them are empty
RequiredEmpty(h) ==
    Cardinality({ f \in {"endpoint", "sensuAPIURL"} : h[f] = <<>> }
                \cup { f \in {"puppetCert", "puppetKey", "puppetCACert",
                              "sensuAPIKey"} : h[f] = "" })

\* A URL option that is empty, or has a scheme and a host
EmptyOrValidURL(s) ==
    \/ s = <<>>
    \/ /\ Parse(s).err = ""
       /\ Parse(s).url.Scheme # <<>>
       /\ Parse(s).url.Host # <<>>

\* C7: with one of the endpoint, the certificate, the key, the CA certificate,
\* the API URL and the API key empty and the others set and valid, validate
\* returns an error and no request is made.
C7_RequiredOptions ==
    LET given == validations[1].given IN
    ( /\ validations # <<>>
      /\ RequiredEmpty(given) = 1
      /\ EmptyOrValidURL(given.endpoint)
      /\ EmptyOrValidURL(given.sensuAPIURL) ) =>
        /\ validations[1].err # ""
        /\ CallsOf("GET") = {} /\ CallsOf("DELETE") = {}

\* C8: on an event without a check or without an entity validate returns an
\* error, whatever the configuration; executeHandler is not reached and nothing
\* is loaded, requested or deleted.
C8_InvalidEvent ==
    (event.Check = Nil \/ event.Entity = Nil) =>
        /\ pc \in {"validate", "exit"}
        /\ pc = "exit" => (exitErr # "" /\ validations[1].err # "")
        /\ calls = <<>>

C8_Witness ==
    /\ event.Check # Nil
    /\ event.Entity = Nil
    /\ pc = "exit"
    /\ exitErr # ""
    /\ RequiredSet(validations[1].given)

\* C9: when validate succeeds on an endpoint whose path is empty or "/", the
\* stored endpoint is the given scheme and host with the path
\* "/pdb/query/v4/nodes"; with any other path the path is as given.
C9_DefaultPath ==
    Validated =>
        LET given  == Parse(validations[1].given.endpoint).url
            stored == Parse(validations[1].handler.endpoint)
        IN /\ stored.err = ""
           /\ stored.url.Scheme = given.Scheme
           /\ stored.url.Host = given.Host
           /\ stored.url.Path = IF given.Path \in {<<>>, <<"/">>}
                                THEN <<"/">> \o defaultAPIPath
                                ELSE given.Path

\* C10: when a run of validate succeeds, the next run succeeds too and leaves
\* the configuration as the first left it.
C10_ValidateIdempotent ==
    \A i \in DOMAIN validations :
        (i + 1 \in DOMAIN validations /\ validations[i].err = "") =>
            /\ validations[i + 1].err = ""
            /\ validations[i + 1].handler = validations[i].handler

\* C11: once validate has returned nil the stored endpoint has a scheme, a host
\* and a path, and the stored Sensu API URL has a scheme and a host.
C11_ValidatedURLs ==
    Validated =>
        LET e == Parse(handler.endpoint)
            a == Parse(handler.sensuAPIURL)
        IN /\ e.err = ""
           /\ e.url.Scheme # <<>> /\ e.url.Host # <<>> /\ e.url.Path # <<>>
           /\ a.err = ""
           /\ a.url.Scheme # <<>> /\ a.url.Host # <<>>

\* C12: with the required options set and a valid Sensu API URL, validate
\* returns an error for an endpoint that does not parse or parses without a host.
C12_EndpointWithoutHost ==
    LET given == validations[1].given
        p     == Parse(given.endpoint)
    IN ( /\ validations # <<>>
         /\ RequiredSet(given)
         /\ EmptyOrValidURL(given.sensuAPIURL)
         /\ (p.err # "" \/ p.url.Host = <<>>) ) =>
           validations[1].err # ""

\* The value of the entity label "puppet_node_name", empty when the entity has
\* no such label
LabelNodeName(ev) ==
    IF \E kv \in ev.Entity.Labels : kv[1] = labelPuppetNodeName
    THEN (CHOOSE kv \in ev.Entity.Labels : kv[1] = labelPuppetNodeName)[2]
    ELSE <<>>

\* C13: the node looked up is the node-name option when it is set, else the
\* entity label "puppet_node_name" when it is set, else the entity's name.
C13_NodeNamePrecedence ==
    \A i \in CallsOf("GET") :
        calls[i].target =
            TrimRightSlash(handler.endpoint) \o <<"/">> \o
            ( IF handler.puppetNodeName # <<>> THEN handler.puppetNodeName
              ELSE IF LabelNodeName(event) # <<>> THEN LabelNodeName(event)
              ELSE event.Entity.Name )

\* The five options of C14, in the order the claim gives
OrderedOptions == <<"endpoint", "puppetCert", "puppetKey", "sensuAPIURL", "sensuAPIKey">>

IsEmptyOption(h, f) ==
    IF f \in {"endpoint", "sensuAPIURL"} THEN h[f] = <<>> ELSE h[f] = ""

\* The position in OrderedOptions of the first empty option of h, 0 when none is
FirstEmpty(h) ==
    IF \E i \in DOMAIN OrderedOptions : IsEmptyOption(h, OrderedOptions[i])
    THEN CHOOSE i \in DOMAIN OrderedOptions :
            /\ IsEmptyOption(h, OrderedOptions[i])
            /\ \A j \in 1..(i - 1) : ~IsEmptyOption(h, OrderedOptions[j])
    ELSE 0

\* The error validate returns when the i-th option alone is empty
OnlyEmptyError(i) ==
    LET full == [ endpoint |-> Http \o Localhost, puppetCert |-> "cert.pem",
                  puppetKey |-> "key.pem", puppetCACert |-> "ca.pem",
                  puppetInsecureSkipVerify |-> FALSE, puppetNodeName |-> <<>>,
                  sensuAPIURL |-> Http \o <<"l">>, sensuAPIKey |-> "xxxxxxxxxx",
                  sensuCACert |-> "" ]
        f    == OrderedOptions[i]
        ev   == [Check |-> [Name |-> keepalive],
                 Entity |-> [Namespace |-> <<"d">>, Name |-> <<"f">>, Labels |-> {}]]
    IN validate([full EXCEPT ![f] = IF f \in {"endpoint", "sensuAPIURL"}
                                   THEN <<>> ELSE ""], ev).err

\* C14 as stated: whatever the event, with some of the five options empty
\* validate returns the error of the first empty one in the order endpoint,
\* certificate, key, API URL, API key, and the five errors differ.
C14_FirstEmptyOption ==
    (validations # <<>> /\ FirstEmpty(validations[1].given) # 0) =>
        /\ validations[1].err = OnlyEmptyError(FirstEmpty(validations[1].given))
        /\ \A i, j \in DOMAIN OrderedOptions :
              /\ OnlyEmptyError(i) # ""
              /\ i # j => OnlyEmptyError(i) # OnlyEmptyError(j)

\* C14, amended: the same on an event that has a check and an entity.
C14_FirstEmptyOptionValidEvent ==
    (event.Check # Nil /\ event.Entity # Nil) => C14_FirstEmptyOption

C14_Witness ==
    /\ validations # <<>>
    /\ event.Check # Nil /\ event.Entity # Nil
    /\ validations[1].given.endpoint # <<>>
    /\ validations[1].given.puppetCert = ""
    /\ validations[1].given.puppetKey = ""
    /\ validations[1].given.sensuAPIKey = ""
    /\ validations[1].err = "the path to the SSL certificate is required"

\* C15: every DELETE names the event's entity by its own namespace and name,
\* whatever node name was looked up, and no step changes the event.
C15_DeleteTargetsEntity ==
    /\ [](\A i \in CallsOf("DELETE") :
             calls[i].target = <<event.Entity.Namespace, event.Entity.Name>>)
    /\ [][event' = event]_vars

C15_Witness ==
    /\ CallsOf("DELETE") # {}
    /\ handler.puppetNodeName # <<>>
    /\ handler.puppetNodeName # event.Entity.Name
    /\ event.Entity.Labels # {}

\* How far the handler has come
Rank(p) ==
    CASE p = "validate" -> 1
      [] p = "executeHandler" -> 2
      [] p = "puppetHTTPClient" -> 3
      [] p = "puppetNodeExists" -> 4
      [] p = "deregisterEntity" -> 5
      [] p = "exit" -> 6

\* C16: in one invocation at most one GET and at most one DELETE are issued,
\* whatever their outcomes, and the handler comes to its end: every step
\* takes it further towards its exit, none takes it back to a call already made.
C16_NoRetries ==
    /\ [](/\ Cardinality(CallsOf("GET")) <= 1
          /\ Cardinality(CallsOf("DELETE")) <= 1)
    /\ [][Rank(pc') > Rank(pc)]_vars

C16_Witness ==
    /\ pc = "exit"
    /\ Cardinality(CallsOf("GET")) = 1
    /\ Cardinality(CallsOf("DELETE")) = 1
    /\ deleteOutcome.kind = "HTTPError"
    /\ deleteOutcome.StatusCode = 503
    /\ exitErr # ""

\* C17: when the certificate and key pair or the Puppet CA certificate cannot
\* be loaded the handler ends with an error and issues neither a GET nor a DELETE.
C17_LoadFailureIsFatal ==
    (puppetFiles # Nil /\ (puppetFiles.keyPair # "ok" \/ puppetFiles.caCert # "ok")) =>
        /\ pc = "exit"
        /\ exitErr # ""
        /\ puppetClient = Nil
        /\ CallsOf("GET") = {} /\ CallsOf("DELETE") = {}

C17_Witness ==
    /\ puppetFiles # Nil
    /\ puppetFiles.keyPair = "ok"
    /\ puppetFiles.caCert = "unreadable"
    /\ handler.puppetCACert # ""
    /\ pc = "exit"
    /\ exitErr = "could not read the CA certificate"

\* C18: whenever the GET gave a response its body has been closed when
\* puppetNodeExists has returned, whatever the status and the body, so none is
\* open when the handler ends.
C18_BodyClosed ==
    resp # Nil => (resp.closed /\ pc # "puppetNodeExists")

C18_Witness ==
    /\ resp # Nil
    /\ resp.StatusCode = StatusOK
    /\ ~resp.Body.valid
    /\ resp.closed
    /\ pc = "exit"
    /\ exitErr = "puppet node returned invalid response"

\* C19: the PuppetDB client and the Sensu API client both skip the
\* verification of the server's certificate exactly when the
\* insecure-skip-tls-verify option is set.
C19_SkipVerifyBothClients ==
    /\ puppetClient # Nil =>
         puppetClient.InsecureSkipVerify = handler.puppetInsecureSkipVerify
    /\ sensuConfig # Nil =>
         /\ sensuConfig.InsecureSkipVerify = handler.puppetInsecureSkipVerify
         /\ sensuConfig.InsecureSkipVerify = puppetClient.InsecureSkipVerify

C19_Witness ==
    /\ sensuConfig # Nil
    /\ puppetClient # Nil
    /\ handler.puppetInsecureSkipVerify
    /\ sensuConfig.InsecureSkipVerify
    /\ puppetClient.InsecureSkipVerify

====
